---- MODULE Spec2Model ----
(***************************************************************************)
(* The LoRa TX/RX demo application (src/src/bin/lora_txrx.rs): the event   *)
(* dispatch loop of main, racing the user button against the radio         *)
(* interrupt line, and its four handlers show_and_clear_rx_stats,          *)
(* send_pkt, switch_mode and show_rx_pkt.                                  *)
(*                                                                         *)
(* One action is one segment of the single cooperative task between two   *)
(* suspension points: it completes the driver command the task is         *)
(* awaiting (pc names it), with success or failure, and runs the           *)
(* synchronous code that follows up to the next await.  The button and     *)
(* the radio act at any time through Press and RadioIrq.                   *)
(***************************************************************************)
EXTENDS Integers, Sequences, FiniteSets, TLC

VARIABLES
    pc,         \* where the task is: the command it awaits, "select", "ret" or "panicked"
    handler,    \* the function the task is in
    press,      \* main's `press` of the iteration under way ("None" outside a press arm)
    role,       \* main's `role`
    pkt_id,     \* main's `pkt_id` (u8)
    buffer,     \* the driver's packet buffer, lr1120.buffer()
    snap,       \* show_rx_pkt's `intr`, the snapshot get_status returned
    nb_byte,    \* show_rx_pkt's buffer_status.pld_len()
    rx_offset,  \* show_rx_pkt's buffer_status.offset()
    cmds,       \* the driver and LED calls made so far by the iteration under way
    panicMsg,   \* the message of the panic that halted the program
    radioMode,  \* the mode of the last mode command the radio accepted
    intr,       \* the radio's interrupt flags
    btn,        \* the button event source: the press not yet seen by the loop
    irqPending, \* the interrupt line: a rising edge not yet seen by the loop
    nLong       \* history: the number of Long presses dispatched so far, modulo 2

vars == <<pc, handler, press, role, pkt_id, buffer, snap, nb_byte, rx_offset, cmds,
          panicMsg, radioMode, intr, btn, irqPending, nLong>>

progVars == <<pc, handler, press, role, pkt_id, buffer, snap, nb_byte, rx_offset, cmds,
              panicMsg, radioMode, nLong>>

(***************************************************************************)
(* Constants of the program and bounds of the model                        *)
(***************************************************************************)
PLD_SIZE == 10

\* u8: pkt_id, the payload bytes and the reported payload length are one byte wide
U8 == 256

\* the bytes of the driver's buffer that the model keeps
BufLen == 12

\* the user asks for at most this many sends in the event-loop specification
MaxSends == 2

\* payload lengths the radio reports in the model
PldLens == {8, 200, 254}

\* offsets the radio reports in the model
Offsets == {0, 128}

\* the byte values a received packet is made of in the model
RxBytes == {170}

PressKinds == {"Short", "Long"}

IntrFlags == {"rx_done", "rx_error", "tx_done"}

\* what one radio interrupt raises: nothing the handler looks at, a good
\* packet, a packet with an error, the end of a transmission
IntrEvents == {{}, {"rx_done"}, {"rx_done", "rx_error"}, {"tx_done"}}

(***************************************************************************)
(* Pure parts of the code                                                  *)
(***************************************************************************)
Toggle(r) == IF r = "Rx" THEN "Tx" ELSE "Rx"

IsRx(r) == r = "Rx"

\* a routing with the two Short arms swapped: a send in Rx, statistics in Tx
RouteSwapsShort(p, r) ==
    CASE p = "Short" /\ r = "Rx" -> "send_pkt"
      [] p = "Short" /\ r = "Tx" -> "show_and_clear_rx_stats"
      [] p = "Long"              -> "switch_mode"
      [] OTHER                   -> "main"

\* a routing that forgets the role: a Short press always sends
RouteIgnoresRole(p, r) ==
    CASE p = "Short" -> "send_pkt"
      [] p = "Long"  -> "switch_mode"
      [] OTHER       -> "main"

\* the match on (press, role)
Route(p, r) ==
    CASE p = "Short" /\ r = "Rx" -> "show_and_clear_rx_stats"
      [] p = "Short" /\ r = "Tx" -> "send_pkt"
      [] p = "Long"              -> "switch_mode"
      [] OTHER                   -> "main"

\* a statistics handler that clears before it reads
FirstAwaitClearsFirst(h) ==
    CASE h = "show_and_clear_rx_stats" -> "clear_rx_stats"
      [] h = "send_pkt"                -> "wr_tx_buffer"
      [] h = "switch_mode"             -> "set_chip_mode"
      [] OTHER                         -> "ret"

\* a send that starts the transmission without writing the payload
FirstAwaitSkipsWrite(h) ==
    CASE h = "show_and_clear_rx_stats" -> "get_rx_stats"
      [] h = "send_pkt"                -> "set_tx"
      [] h = "switch_mode"             -> "set_chip_mode"
      [] OTHER                         -> "ret"

\* the first driver command each handler awaits; the fallback arm awaits none
FirstAwait(h) ==
    CASE h = "show_and_clear_rx_stats" -> "get_rx_stats"
      [] h = "send_pkt"                -> "wr_tx_buffer"
      [] h = "switch_mode"             -> "set_chip_mode"
      [] OTHER                         -> "ret"

\* a toggle on every press
RoleOnDispatchAlways(h, r) == Toggle(r)

\* a toggle left out of the Long arm
RoleOnDispatchNever(h, r) == r

\* role.toggle() runs in the Long arm only, before switch_mode is called
RoleOnDispatch(h, r) == IF h = "switch_mode" THEN Toggle(r) ELSE r

\* u8::wrapping_add
WrappingAdd(a, b) == (a + b) % U8

\* a fill that counts from one
FillPayloadFromOne(buf, id, len) ==
    [i \in 1..Len(buf) |->
        IF i <= len THEN WrappingAdd(id, i % U8) ELSE buf[i]]

\* for (i,d) in buffer_mut().iter_mut().take(len).enumerate() { *d = pkt_id.wrapping_add(i as u8) }
FillPayload(buf, id, len) ==
    [i \in 1..Len(buf) |->
        IF i <= len THEN WrappingAdd(id, (i - 1) % U8) ELSE buf[i]]

\* a + b on u8 with the plain operator: the sum when it fits; on overflow the
\* build decides, wrapping (overflow checks off) or panicking (overflow checks on)
AddU8(a, b) ==
    IF a + b < U8
    THEN {[val |-> a + b, overflow |-> FALSE]}
    ELSE {[val |-> (a + b) % U8, overflow |-> FALSE],
          [val |-> a, overflow |-> TRUE]}

OverflowMsg == "attempt to add with overflow"

\* an increment made whether or not set_tx succeeded
IdAfterSetTxAlways(id, ok) == AddU8(id, 1)

\* lr1120.set_tx(0).await.expect("SetTx"); *pkt_id += 1;
IdAfterSetTx(id, ok) ==
    IF ok THEN AddU8(id, 1) ELSE {[val |-> id, overflow |-> FALSE]}

\* a call with its result; off and n are the offset and length of a buffer command
CmdAt(op, off, n, ok) == [op |-> op, off |-> off, n |-> n, ok |-> ok]

Cmd(op, n, ok) == CmdAt(op, 0, n, ok)

Led(op) == Cmd(op, 0, TRUE)

\* a failure that is logged and ends the handler instead of panicking
ExpectReturnsEarly(ok, msg, next) ==
    /\ pc' = (IF ok THEN next ELSE "ret")
    /\ panicMsg' = panicMsg

\* Result::expect(msg): Ok lets the task go on to `next`, Err panics with msg
Expect(ok, msg, next) ==
    IF ok
    THEN pc' = next /\ panicMsg' = panicMsg
    ELSE pc' = "panicked" /\ panicMsg' = msg

\* a switch that restarts the receiver whatever the new role is
AfterSetFsAlwaysRx(is_rx) == "set_rx"

\* the branches of switch_mode swapped
AfterSetFsInverted(is_rx) == IF is_rx THEN "ret" ELSE "set_rx"

\* switch_mode after set_chip_mode(Fs): if is_rx { set_rx ... } else { leds }
AfterSetFs(is_rx) == IF is_rx THEN "set_rx" ELSE "ret"

\* clear_irqs left inside the branches
AfterStatusSkipsClear(s) ==
    IF "rx_done" \in s THEN "get_rx_buffer_status"
    ELSE IF "tx_done" \in s THEN "clear_irqs"
    ELSE "ret"

\* show_rx_pkt after get_status: if intr.rx_done() {..} else if intr.tx_done() {..}; clear_irqs
AfterStatus(s) == IF "rx_done" \in s THEN "get_rx_buffer_status" ELSE "clear_irqs"

\* an error path that leaves the receive buffer as it is
AfterBufferStatusErrorSkipsClear(s) ==
    IF "rx_error" \in s THEN "clear_irqs" ELSE "rd_rx_buffer"

\* show_rx_pkt after get_rx_buffer_status: if intr.rx_error() { warn } else { read }
AfterBufferStatus(s) == IF "rx_error" \in s THEN "clear_rx_buffer" ELSE "rd_rx_buffer"

\* a read of the payload without its two status bytes
RdLenPayloadOnly(n) == n

\* the length passed to rd_rx_buffer, nb_byte+2 on u8 once it has not panicked
RdLen(n) == WrappingAdd(n, 2)

\* rd_rx_buffer brings n received bytes into the driver's buffer
Received(buf, n, b) == [i \in 1..Len(buf) |-> IF i <= n THEN b ELSE buf[i]]

(***************************************************************************)
(* Initial state: main has configured the radio and is about to start      *)
(* continuous receive                                                      *)
(***************************************************************************)
Init ==
    /\ pc = "init_set_rx"
    /\ handler = "main"
    /\ press = "None"
    /\ role = "Rx"
    /\ pkt_id = 0
    /\ buffer = [i \in 1..BufLen |-> 0]
    /\ snap = {}
    /\ nb_byte = 0
    /\ rx_offset = 0
    /\ cmds = <<>>
    /\ panicMsg = ""
    /\ radioMode = "Standby"
    /\ intr = {}
    /\ btn = "None"
    /\ irqPending = FALSE
    /\ nLong = 0

(***************************************************************************)
(* The event sources                                                       *)
(***************************************************************************)
\* the button task publishes a press: the latest value replaces one not yet seen
Press(k) ==
    /\ pc # "panicked"
    /\ btn' = k
    /\ UNCHANGED <<progVars, intr, irqPending>>

\* the user's sends are bounded in the event-loop specification
SendBudget(k) == (k = "Short" /\ role = "Tx") => pkt_id < MaxSends

\* the radio raises flags and the interrupt line rises
RadioIrq(f) ==
    /\ pc \notin {"panicked", "init_set_rx"}
    /\ intr' = intr \cup f
    /\ irqPending' = TRUE
    /\ UNCHANGED <<progVars, btn>>

(***************************************************************************)
(* main                                                                    *)
(***************************************************************************)
\* match lr1120.set_rx(0xFFFFFFFF, true).await { Ok => info, Err => error }
InitSetRx ==
    /\ pc = "init_set_rx"
    /\ \E ok \in BOOLEAN :
        /\ cmds' = <<Cmd("set_rx(0xFFFFFFFF,true)", 0, ok)>>
        /\ radioMode' = IF ok THEN "Rx" ELSE radioMode
    /\ pc' = "select"
    /\ UNCHANGED <<handler, press, role, pkt_id, buffer, snap, nb_byte, rx_offset,
                   panicMsg, intr, btn, irqPending, nLong>>

\* select(...) resolves to Either::First(press): the button is polled first
DispatchPress ==
    /\ pc = "select"
    /\ btn # "None"
    /\ btn' = "None"
    /\ press' = btn
    /\ LET h == Route(btn, role) IN
        /\ handler' = h
        /\ role' = RoleOnDispatch(h, role)
        /\ nLong' = IF btn = "Long" THEN (nLong + 1) % 2 ELSE nLong
        /\ cmds' = <<>>
        /\ buffer' = IF h = "send_pkt"
                     THEN FillPayload(buffer, pkt_id, PLD_SIZE)
                     ELSE buffer
        /\ pc' = FirstAwait(h)
    /\ UNCHANGED <<pkt_id, snap, nb_byte, rx_offset, panicMsg, radioMode, intr, irqPending>>

\* an interrupt arm that goes to the handler without the flash
IrqArmCallsNone == <<>>

\* Either::Second(_) => { board.led_green_set(LedMode::Flash); show_rx_pkt(...) }
IrqArmCalls == <<Led("led_green_set(Flash)")>>

\* an interrupt served as soon as the line rises, whatever the loop is doing
DispatchIrqPreempts ==
    /\ pc # "panicked"
    /\ irqPending
    /\ irqPending' = FALSE
    /\ handler' = "show_rx_pkt"
    /\ cmds' = IrqArmCalls
    /\ pc' = "get_status"
    /\ UNCHANGED <<press, role, pkt_id, buffer, snap, nb_byte, rx_offset, panicMsg,
                   radioMode, intr, btn, nLong>>

\* a loop that takes the interrupt first and throws the waiting press away
DispatchIrqDropsPress ==
    /\ pc = "select"
    /\ irqPending
    /\ irqPending' = FALSE
    /\ btn' = "None"
    /\ handler' = "show_rx_pkt"
    /\ cmds' = IrqArmCalls
    /\ pc' = "get_status"
    /\ UNCHANGED <<press, role, pkt_id, buffer, snap, nb_byte, rx_offset, panicMsg,
                   radioMode, intr, nLong>>

\* select(...) resolves to Either::Second(_): the interrupt line rose
DispatchIrq ==
    /\ pc = "select"
    /\ btn = "None"
    /\ irqPending
    /\ irqPending' = FALSE
    /\ handler' = "show_rx_pkt"
    /\ cmds' = IrqArmCalls
    /\ pc' = "get_status"
    /\ UNCHANGED <<press, role, pkt_id, buffer, snap, nb_byte, rx_offset, panicMsg,
                   radioMode, intr, btn, nLong>>

\* the arm is over: the loop goes round
LoopBack ==
    /\ pc = "ret"
    /\ pc' = "select"
    /\ handler' = "main"
    /\ press' = "None"
    /\ cmds' = <<>>
    /\ snap' = {}
    /\ nb_byte' = 0
    /\ rx_offset' = 0
    /\ UNCHANGED <<role, pkt_id, buffer, panicMsg, radioMode, intr, btn,
                   irqPending, nLong>>

(***************************************************************************)
(* show_and_clear_rx_stats                                                 *)
(***************************************************************************)
GetRxStats ==
    /\ pc = "get_rx_stats"
    /\ \E ok \in BOOLEAN :
        /\ cmds' = Append(cmds, Cmd("get_rx_stats", 0, ok))
        /\ Expect(ok, "RX stats", "clear_rx_stats")
    /\ UNCHANGED <<handler, press, role, pkt_id, buffer, snap, nb_byte, rx_offset,
                   radioMode, intr, btn, irqPending, nLong>>

ClearRxStats ==
    /\ pc = "clear_rx_stats"
    /\ \E ok \in BOOLEAN :
        /\ cmds' = Append(cmds, Cmd("clear_rx_stats", 0, ok))
        /\ Expect(ok, "Clear stats", "ret")
    /\ UNCHANGED <<handler, press, role, pkt_id, buffer, snap, nb_byte, rx_offset,
                   radioMode, intr, btn, irqPending, nLong>>

(***************************************************************************)
(* send_pkt (the payload is filled before the first await, in              *)
(* DispatchPress) and the led_red_set(Flash) that follows it in main       *)
(***************************************************************************)
WrTxBuffer ==
    /\ pc = "wr_tx_buffer"
    /\ \E ok \in BOOLEAN :
        /\ cmds' = Append(cmds, Cmd("wr_tx_buffer", PLD_SIZE, ok))
        /\ Expect(ok, "FIFO write", "set_tx")
    /\ UNCHANGED <<handler, press, role, pkt_id, buffer, snap, nb_byte, rx_offset,
                   radioMode, intr, btn, irqPending, nLong>>

\* set_tx(0).await.expect("SetTx"); *pkt_id += 1; then led_red_set(Flash) in main
SetTx ==
    /\ pc = "set_tx"
    /\ \E ok \in BOOLEAN :
        \E r \in IdAfterSetTx(pkt_id, ok) :
            /\ pkt_id' = r.val
            /\ radioMode' = IF ok THEN "Tx" ELSE radioMode
            /\ IF ~ok
               THEN /\ cmds' = Append(cmds, Cmd("set_tx(0)", 0, FALSE))
                    /\ Expect(FALSE, "SetTx", "ret")
               ELSE IF r.overflow
               THEN /\ cmds' = Append(cmds, Cmd("set_tx(0)", 0, TRUE))
                    /\ pc' = "panicked"
                    /\ panicMsg' = OverflowMsg
               ELSE /\ cmds' = cmds \o <<Cmd("set_tx(0)", 0, TRUE),
                                         Led("led_red_set(Flash)")>>
                    /\ pc' = "ret"
                    /\ panicMsg' = panicMsg
    /\ UNCHANGED <<handler, press, role, buffer, snap, nb_byte, rx_offset, intr, btn,
                   irqPending, nLong>>

(***************************************************************************)
(* switch_mode                                                             *)
(***************************************************************************)
SetChipMode ==
    /\ pc = "set_chip_mode"
    /\ \E ok \in BOOLEAN :
        IF ok
        THEN /\ radioMode' = "Fs"
             /\ pc' = AfterSetFs(IsRx(role))
             /\ panicMsg' = panicMsg
             /\ cmds' = IF pc' = "ret"
                        THEN cmds \o <<Cmd("set_chip_mode(Fs)", 0, TRUE),
                                       Led("led_red_set(BlinkSlow)"),
                                       Led("led_green_set(Off)")>>
                        ELSE Append(cmds, Cmd("set_chip_mode(Fs)", 0, TRUE))
        ELSE /\ cmds' = Append(cmds, Cmd("set_chip_mode(Fs)", 0, FALSE))
             /\ Expect(FALSE, "SetFs", "ret")
             /\ UNCHANGED radioMode
    /\ UNCHANGED <<handler, press, role, pkt_id, buffer, snap, nb_byte, rx_offset, intr,
                   btn, irqPending, nLong>>

SetRx ==
    /\ pc = "set_rx"
    /\ \E ok \in BOOLEAN :
        /\ Expect(ok, "SetRx", "ret")
        /\ radioMode' = IF ok THEN "Rx" ELSE radioMode
        /\ cmds' = IF ok
                   THEN cmds \o <<Cmd("set_rx(0xFFFFFFFF,true)", 0, TRUE),
                                  Led("led_red_set(Off)"),
                                  Led("led_green_set(BlinkSlow)")>>
                   ELSE Append(cmds, Cmd("set_rx(0xFFFFFFFF,true)", 0, FALSE))
    /\ UNCHANGED <<handler, press, role, pkt_id, buffer, snap, nb_byte, rx_offset, intr,
                   btn, irqPending, nLong>>

(***************************************************************************)
(* show_rx_pkt                                                             *)
(***************************************************************************)
GetStatus ==
    /\ pc = "get_status"
    /\ \E ok \in BOOLEAN :
        /\ cmds' = Append(cmds, Cmd("get_status", 0, ok))
        /\ snap' = IF ok THEN intr ELSE snap
        /\ Expect(ok, "Getting intr", AfterStatus(intr))
    /\ UNCHANGED <<handler, press, role, pkt_id, buffer, nb_byte, rx_offset, radioMode,
                   intr, btn, irqPending, nLong>>

\* get_rx_buffer_status; on the read path the length nb_byte+2 is computed
\* for the call of rd_rx_buffer
GetRxBufferStatus ==
    /\ pc = "get_rx_buffer_status"
    /\ \E ok \in BOOLEAN :
        IF ok
        THEN \E n \in PldLens, o \in Offsets :
                /\ nb_byte' = n
                /\ rx_offset' = o
                /\ cmds' = Append(cmds, Cmd("get_rx_buffer_status", 0, TRUE))
                /\ IF AfterBufferStatus(snap) = "rd_rx_buffer"
                   THEN \E r \in AddU8(n, 2) :
                            IF r.overflow
                            THEN pc' = "panicked" /\ panicMsg' = OverflowMsg
                            ELSE pc' = "rd_rx_buffer" /\ panicMsg' = panicMsg
                   ELSE pc' = AfterBufferStatus(snap) /\ panicMsg' = panicMsg
        ELSE /\ cmds' = Append(cmds, Cmd("get_rx_buffer_status", 0, FALSE))
             /\ Expect(FALSE, "RX Fifo level", "ret")
             /\ UNCHANGED <<nb_byte, rx_offset>>
    /\ UNCHANGED <<handler, press, role, pkt_id, buffer, snap, radioMode,
                   intr, btn, irqPending, nLong>>

RdRxBuffer ==
    /\ pc = "rd_rx_buffer"
    /\ \E ok \in BOOLEAN :
        /\ cmds' = Append(cmds, CmdAt("rd_rx_buffer", rx_offset,
                                     RdLen(nb_byte), ok))
        /\ Expect(ok, "RdRxBuffer", "get_lora_packet_status")
        /\ IF ok
           THEN \E b \in RxBytes :
                    buffer' = Received(buffer, RdLen(nb_byte), b)
           ELSE buffer' = buffer
    /\ UNCHANGED <<handler, press, role, pkt_id, snap, nb_byte, rx_offset, radioMode,
                   intr, btn, irqPending, nLong>>

GetLoraPacketStatus ==
    /\ pc = "get_lora_packet_status"
    /\ \E ok \in BOOLEAN :
        /\ cmds' = Append(cmds, Cmd("get_lora_packet_status", 0, ok))
        /\ Expect(ok, "RX status", "clear_rx_buffer")
    /\ UNCHANGED <<handler, press, role, pkt_id, buffer, snap, nb_byte, rx_offset,
                   radioMode, intr, btn, irqPending, nLong>>

ClearRxBuffer ==
    /\ pc = "clear_rx_buffer"
    /\ \E ok \in BOOLEAN :
        /\ cmds' = Append(cmds, Cmd("clear_rx_buffer", 0, ok))
        /\ Expect(ok, "Clear Rx Buffer", "clear_irqs")
    /\ UNCHANGED <<handler, press, role, pkt_id, buffer, snap, nb_byte, rx_offset,
                   radioMode, intr, btn, irqPending, nLong>>

ClearIrqs ==
    /\ pc = "clear_irqs"
    /\ \E ok \in BOOLEAN :
        /\ cmds' = Append(cmds, Cmd("clear_irqs(None)", 0, ok))
        /\ intr' = IF ok THEN {} ELSE intr
        /\ Expect(ok, "Clear IRQs", "ret")
    /\ UNCHANGED <<handler, press, role, pkt_id, buffer, snap, nb_byte, rx_offset,
                   radioMode, btn, irqPending, nLong>>

(***************************************************************************)
(* The event loop                                                          *)
(***************************************************************************)
Task ==
    \/ InitSetRx
    \/ DispatchPress
    \/ DispatchIrq
    \/ LoopBack
    \/ GetRxStats
    \/ ClearRxStats
    \/ WrTxBuffer
    \/ SetTx
    \/ SetChipMode
    \/ SetRx
    \/ GetStatus
    \/ GetRxBufferStatus
    \/ RdRxBuffer
    \/ GetLoraPacketStatus
    \/ ClearRxBuffer
    \/ ClearIrqs

Next ==
    \/ Task
    \/ \E k \in PressKinds : Press(k) /\ SendBudget(k)
    \/ \E f \in IntrEvents : RadioIrq(f)

Spec == Init /\ [][Next]_vars

(***************************************************************************)
(* The send handler on every packet id: the task is idle in role Tx with   *)
(* any pkt_id a run of sends leaves, and the user only asks for sends      *)
(***************************************************************************)
SentBuffer(k) ==
    IF k = 0
    THEN [i \in 1..BufLen |-> 0]
    ELSE FillPayload([i \in 1..BufLen |-> 0], k - 1, PLD_SIZE)

SendInit ==
    /\ pc = "select"
    /\ handler = "main"
    /\ press = "None"
    /\ role = "Tx"
    /\ pkt_id \in 0..(U8 - 1)
    /\ buffer = SentBuffer(pkt_id)
    /\ snap = {}
    /\ nb_byte = 0
    /\ rx_offset = 0
    /\ cmds = <<>>
    /\ panicMsg = ""
    /\ radioMode = IF pkt_id = 0 THEN "Fs" ELSE "Tx"
    /\ intr = {}
    /\ btn = "None"
    /\ irqPending = FALSE
    /\ nLong = 1

SendNext ==
    \/ Press("Short")
    \/ DispatchPress
    \/ WrTxBuffer
    \/ SetTx
    \/ LoopBack

SendSpec == SendInit /\ [][SendNext]_vars

(***************************************************************************)
(* What the properties read off a state                                    *)
(***************************************************************************)
Ops == [i \in 1..Len(cmds) |-> cmds[i].op]

IsPrefix(s, t) == Len(s) <= Len(t) /\ s = SubSeq(t, 1, Len(s))

Count(op) == Cardinality({i \in 1..Len(cmds) : cmds[i].op = op})

LastOp == IF cmds = <<>> THEN "" ELSE cmds[Len(cmds)].op

\* the last driver command of the iteration under way returned Err
Failed == cmds # <<>> /\ ~cmds[Len(cmds)].ok

\* a driver command failed inside one of the four handlers
HandlerFailed == handler # "main" /\ Failed

\* the role that nLong Long presses lead to from the initial Rx
RoleAfter(n) == IF n % 2 = 0 THEN "Rx" ELSE "Tx"

StatsOps == <<"get_rx_stats", "clear_rx_stats">>

SendOps == <<"wr_tx_buffer", "set_tx(0)", "led_red_set(Flash)">>

SwitchOps(r) ==
    IF r = "Rx"
    THEN <<"set_chip_mode(Fs)", "set_rx(0xFFFFFFFF,true)",
           "led_red_set(Off)", "led_green_set(BlinkSlow)">>
    ELSE <<"set_chip_mode(Fs)", "led_red_set(BlinkSlow)", "led_green_set(Off)">>

\* the calls of the iteration under way are those of `ops`, in order, and
\* all of them once the arm is over
RunsOnly(ops) == IsPrefix(Ops, ops) /\ (pc = "ret" => Ops = ops)

(***************************************************************************)
(* C1: every dispatched press, Short or Long, in either role, runs exactly *)
(* one action: Short in Rx the statistics handler (query, clear), Short in *)
(* Tx one send followed by the flash of the red LED, Long the toggle of    *)
(* the role and switch_mode for the new role; the calls of the iteration   *)
(* are those of that one action and of no other.                           *)
(***************************************************************************)
C1_PressRouting ==
    press \in PressKinds =>
        /\ (press = "Short" /\ role = "Rx") =>
                handler = "show_and_clear_rx_stats" /\ RunsOnly(StatsOps)
        /\ (press = "Short" /\ role = "Tx") =>
                handler = "send_pkt" /\ RunsOnly(SendOps)
        /\ press = "Long" =>
                /\ handler = "switch_mode"
                /\ role = RoleAfter(nLong)
                /\ RunsOnly(SwitchOps(role))

C1_Witness ==
    /\ pc = "ret"
    /\ press = "Short"
    /\ role = "Tx"
    /\ Ops = SendOps

C3_PendingEventIsDispatched ==
    (irqPending \/ btn # "None") => ENABLED Task

(***************************************************************************)
(* C3 as amended: a handler never clears a pending event.  A pending       *)
(* interrupt edge stays pending until the loop dispatches it to            *)
(* show_rx_pkt; a pending press stays pending until the loop dispatches it *)
(* to the handler of its kind or a newer press replaces it.                *)
(***************************************************************************)
C3_PendingEventIsKept ==
    [][ /\ (irqPending /\ ~irqPending') =>
                (pc = "select" /\ pc' = "get_status" /\ handler' = "show_rx_pkt")
        /\ (btn # "None" /\ btn' # btn) =>
                \/ btn' # "None"
                \/ (pc = "select" /\ press' = btn /\ handler' = Route(btn, role))
      ]_vars

\* both sources fired while show_rx_pkt was running
C3_Witness ==
    /\ handler = "show_rx_pkt"
    /\ pc = "clear_irqs"
    /\ irqPending
    /\ btn = "Long"

(***************************************************************************)
(* C4 as claimed: whenever the loop waits in select, the mode the radio    *)
(* was put in matches the role: continuous receive for Rx, frequency       *)
(* synthesis for Tx.                                                       *)
(***************************************************************************)
C4_RadioModeMatchesRole ==
    pc = "select" =>
        /\ role = "Rx" => radioMode = "Rx"
        /\ role = "Tx" => radioMode = "Fs"

(***************************************************************************)
(* C4 as amended: whenever the loop waits in select, role Rx implies the   *)
(* radio accepted a continuous receive-start as its last mode command, or  *)
(* is still in the mode initialisation left it in (the failure of the      *)
(* first receive-start is only logged); role Tx implies the last accepted  *)
(* mode command is the frequency-synthesis of the switch or the            *)
(* transmit-start of a send made since.                                    *)
(***************************************************************************)
C4_RadioModeFollowsRole ==
    pc = "select" =>
        /\ role = "Rx" => radioMode \in {"Rx", "Standby"}
        /\ role = "Tx" => radioMode \in {"Fs", "Tx"}
        /\ radioMode = "Standby" => nLong = 0

C4_Witness ==
    /\ pc = "select"
    /\ role = "Rx"
    /\ radioMode = "Rx"
    /\ pkt_id = 1

(***************************************************************************)
(* C5: the role changes only when a Long press is dispatched, and then it  *)
(* flips; a Short press and an interrupt leave it as it is; after an even  *)
(* number of dispatched Long presses the role is the initial one again.    *)
(***************************************************************************)
C5_RoleToggle ==
    /\ [](role = RoleAfter(nLong))
    /\ [][ /\ role' # role =>
                (pc = "select" /\ btn = "Long" /\ role' = Toggle(role))
           /\ (pc = "select" /\ pc' # "select") =>
                (role' # role <=> btn = "Long")
         ]_vars

\* a second Long press has brought the role back to Rx
C5_Witness ==
    /\ press = "Long"
    /\ role = "Rx"
    /\ pc = "ret"

(***************************************************************************)
(* During send_pkt the first byte of the buffer is the packet id the       *)
(* handler was entered with.                                               *)
(***************************************************************************)
SendOk(i) == handler = "send_pkt" /\ Len(cmds) >= i /\ cmds[i].ok

(***************************************************************************)
(* C6: every send whose two commands succeed completes like any other and  *)
(* leaves the packet id one higher modulo 256, the send entered with 255   *)
(* included, which takes it to 0.                                          *)
(***************************************************************************)
C6_IncrementWraps ==
    (SendOk(1) /\ SendOk(2)) =>
        /\ pc = "ret"
        /\ pkt_id = (buffer[1] + 1) % U8

(***************************************************************************)
(* C7: for every packet id k, while the buffer-write command is awaited    *)
(* and until the send is over, the first PLD_SIZE bytes of the buffer are  *)
(* (k + i) mod 256 for i = 0..PLD_SIZE-1, in order, the bytes behind them  *)
(* are untouched, and the write command is for exactly PLD_SIZE bytes.     *)
(***************************************************************************)
C7_PayloadBytes ==
    (handler = "send_pkt" /\ pc \in {"wr_tx_buffer", "set_tx"}) =>
        /\ \A i \in 0..(PLD_SIZE - 1) : buffer[i + 1] = (pkt_id + i) % U8
        /\ \A i \in (PLD_SIZE + 1)..BufLen : buffer[i] = 0
        /\ pc = "set_tx" =>
                cmds = <<Cmd("wr_tx_buffer", PLD_SIZE, TRUE)>>

\* a payload that wraps: 250, ..., 255, 0, ..., 3
C7_Witness ==
    /\ pc = "set_tx"
    /\ pkt_id = 250
    /\ buffer[1] = 250
    /\ buffer[PLD_SIZE] = 3

(***************************************************************************)
(* C8 as claimed: a send in which the buffer-write or the transmit-start   *)
(* fails still advances the packet id by one.                              *)
(***************************************************************************)
C8_FailedSendAdvancesId ==
    (handler = "send_pkt" /\ Failed) => pkt_id = (buffer[1] + 1) % U8

(***************************************************************************)
(* C8 as amended: the packet id is incremented only after the buffer-write *)
(* and the transmit-start have both succeeded; a send in which either      *)
(* fails panics before the increment and leaves the packet id as it was.   *)
(***************************************************************************)
C8_FailedSendKeepsId ==
    handler = "send_pkt" =>
        /\ Failed => (pkt_id = buffer[1] /\ pc = "panicked"
                      /\ panicMsg \in {"FIFO write", "SetTx"})
        /\ pkt_id # buffer[1] => (SendOk(1) /\ SendOk(2))

C8_Witness ==
    /\ handler = "send_pkt"
    /\ Failed
    /\ LastOp = "set_tx(0)"
    /\ pkt_id = 1

(***************************************************************************)
(* C9 as claimed: when a command of switch_mode fails, the role is the     *)
(* toggled one and the loop goes on, so that a later Long press is         *)
(* dispatched.                                                             *)
(***************************************************************************)
C9_FailedSwitchCanBeRetried ==
    (handler = "switch_mode" /\ Failed) =>
        /\ role = RoleAfter(nLong)
        /\ ENABLED Task

(***************************************************************************)
(* C9 as amended: when a command of switch_mode fails, the role is the     *)
(* toggled one, and the program is halted by the panic: no later press is  *)
(* dispatched.                                                             *)
(***************************************************************************)
C9_FailedSwitchKeepsRole ==
    (handler = "switch_mode" /\ Failed) =>
        /\ role = RoleAfter(nLong)
        /\ press = "Long"
        /\ panicMsg = (IF LastOp = "set_chip_mode(Fs)" THEN "SetFs" ELSE "SetRx")
        /\ ~ENABLED Task

\* set_rx failed on the way back to Rx, with a Long press waiting
C9_Witness ==
    /\ handler = "switch_mode"
    /\ Failed
    /\ LastOp = "set_rx(0xFFFFFFFF,true)"
    /\ role = "Rx"
    /\ btn = "Long"

(***************************************************************************)
(* C10 as claimed: every invocation of show_rx_pkt, once it is over, has   *)
(* issued clear_irqs exactly once, as its last driver command.             *)
(***************************************************************************)
C10_ClearIrqsOncePerInvocation ==
    (handler = "show_rx_pkt" /\ pc \in {"ret", "panicked"}) =>
        /\ Count("clear_irqs(None)") = 1
        /\ LastOp = "clear_irqs(None)"

(***************************************************************************)
(* C10 as amended: every invocation of show_rx_pkt that returns has issued *)
(* clear_irqs exactly once, as its last driver command, whichever branch   *)
(* it took; an invocation that panics (a failed driver command, or the     *)
(* overflow of the read length) has issued it at most once, and then as    *)
(* the command that failed.                                                *)
(***************************************************************************)
C10_ClearIrqsOncePerReturn ==
    handler = "show_rx_pkt" =>
        /\ pc = "ret" =>
                (Count("clear_irqs(None)") = 1 /\ LastOp = "clear_irqs(None)")
        /\ Count("clear_irqs(None)") <= 1
        /\ Count("clear_irqs(None)") = 1 =>
                (LastOp = "clear_irqs(None)" /\ pc \in {"ret", "panicked"})
        /\ (pc = "panicked" /\ Count("clear_irqs(None)") = 1) => Failed

\* the receive-done branch without error, run to its end
C10_Witness ==
    /\ handler = "show_rx_pkt"
    /\ pc = "ret"
    /\ snap = {"rx_done"}
    /\ nb_byte = 8
    /\ Len(cmds) = 7

\* the positions of the calls of `op` in the iteration under way
At(op) == {i \in 1..Len(cmds) : cmds[i].op = op}

\* the call of `op` was made and returned Ok
Done(op) == \E i \in At(op) : cmds[i].ok

(***************************************************************************)
(* C11: in show_rx_pkt a snapshot with rx_done and rx_error never leads to *)
(* a buffer read; a snapshot with rx_done and without rx_error leads, once *)
(* the buffer status is known, to exactly one read of payload length + 2   *)
(* bytes at the reported offset, followed by one packet-status query.      *)
(***************************************************************************)
C11_ReadIffNoError ==
    (handler = "show_rx_pkt" /\ "rx_done" \in snap) =>
        /\ "rx_error" \in snap => At("rd_rx_buffer") = {}
        /\ ("rx_error" \notin snap /\ Done("get_rx_buffer_status")) =>
            /\ panicMsg # OverflowMsg
            /\ \A i \in At("rd_rx_buffer") :
                    cmds[i].n = nb_byte + 2 /\ cmds[i].off = rx_offset
            /\ pc = "ret" =>
                    /\ Count("rd_rx_buffer") = 1
                    /\ Count("get_lora_packet_status") = 1
                    /\ \A i \in At("rd_rx_buffer") :
                            cmds[i + 1].op = "get_lora_packet_status"

\* every call of `a` comes before every call of `b`
Before(a, b) == \A i \in At(a), j \in At(b) : i < j

IdleOps == <<"led_green_set(Flash)", "get_status", "clear_irqs(None)">>

(***************************************************************************)
(* C12 as claimed: every invocation of show_rx_pkt whose snapshot has      *)
(* rx_done has, once it is over, issued clear_rx_buffer exactly once,      *)
(* after the read and the packet-status query and before clear_irqs; one   *)
(* whose snapshot has no rx_done has issued no buffer-status, read or      *)
(* clear_rx_buffer, and clear_irqs is its only state-changing command.     *)
(***************************************************************************)
C12_ClearRxBufferOncePerRxDone ==
    (handler = "show_rx_pkt" /\ pc \in {"ret", "panicked"}
        /\ Done("get_status")) =>
        IF "rx_done" \in snap
        THEN /\ Count("clear_rx_buffer") = 1
             /\ Before("rd_rx_buffer", "clear_rx_buffer")
             /\ Before("get_lora_packet_status", "clear_rx_buffer")
             /\ Before("clear_rx_buffer", "clear_irqs(None)")
        ELSE Ops = IdleOps

(***************************************************************************)
(* C12 as amended: an invocation of show_rx_pkt whose snapshot has rx_done *)
(* and that returns has issued clear_rx_buffer exactly once, after the     *)
(* read and the packet-status query (both made and Ok when rx_error is     *)
(* clear, neither made when it is set) and before clear_irqs; one that     *)
(* panics has issued it at most once, in that order.  Without rx_done in   *)
(* the snapshot the calls are the LED flash, get_status and clear_irqs and *)
(* no other, all three when the invocation returns.                        *)
(***************************************************************************)
C12_ClearRxBufferOncePerReturn ==
    handler = "show_rx_pkt" =>
        IF "rx_done" \in snap
        THEN /\ Count("clear_rx_buffer") <= 1
             /\ pc = "ret" => Count("clear_rx_buffer") = 1
             /\ Before("rd_rx_buffer", "clear_rx_buffer")
             /\ Before("get_lora_packet_status", "clear_rx_buffer")
             /\ Before("clear_rx_buffer", "clear_irqs(None)")
             /\ At("clear_irqs(None)") # {} => Done("clear_rx_buffer")
             /\ At("clear_rx_buffer") # {} =>
                    IF "rx_error" \in snap
                    THEN At("rd_rx_buffer") = {}
                         /\ At("get_lora_packet_status") = {}
                    ELSE Done("rd_rx_buffer")
                         /\ Done("get_lora_packet_status")
        ELSE /\ IsPrefix(Ops, IdleOps)
             /\ pc = "ret" => Ops = IdleOps

\* the error path, run to its end
C12_Witness ==
    /\ handler = "show_rx_pkt"
    /\ pc = "ret"
    /\ snap = {"rx_done", "rx_error"}
    /\ Count("clear_rx_buffer") = 1
    /\ LastOp = "clear_irqs(None)"

(***************************************************************************)
(* C13 as claimed: no buffer write of a send and no buffer read of a       *)
(* receive is for more than PLD_SIZE + 2 bytes, whatever payload length    *)
(* the radio reports.                                                      *)
(***************************************************************************)
C13_LengthWithinPayloadSize ==
    \A i \in At("wr_tx_buffer") \cup At("rd_rx_buffer") :
        cmds[i].n <= PLD_SIZE + 2

(***************************************************************************)
(* C13 as amended: a send writes exactly PLD_SIZE bytes; a receive reads   *)
(* the reported payload length + 2 modulo 256, which follows the radio's   *)
(* report and not the configured size: it is at most PLD_SIZE + 2 when the *)
(* reported length is at most PLD_SIZE, and at most 255 otherwise.         *)
(***************************************************************************)
C13_LengthFollowsReport ==
    /\ \A i \in At("wr_tx_buffer") : cmds[i].n = PLD_SIZE
    /\ \A i \in At("rd_rx_buffer") :
        /\ cmds[i].n = (nb_byte + 2) % U8
        /\ cmds[i].n < U8
        /\ nb_byte <= PLD_SIZE => cmds[i].n <= PLD_SIZE + 2

\* a packet longer than the configured payload has been read
C13_Witness ==
    /\ Done("rd_rx_buffer")
    /\ nb_byte = 200
    /\ \E i \in At("rd_rx_buffer") : cmds[i].n = 202

(***************************************************************************)
(* C14: clear_rx_stats is only ever issued right after a get_rx_stats that *)
(* returned Ok, in the statistics handler; a Short press in role Rx issues *)
(* these two commands and no other (no buffer write, no set_tx, no mode    *)
(* change), and neither its dispatch nor any of its steps changes the role *)
(* or the packet id.                                                       *)
(***************************************************************************)
C14_StatsReadBeforeClear ==
    /\ [](/\ \A i \in At("clear_rx_stats") :
                /\ handler = "show_and_clear_rx_stats"
                /\ i > 1
                /\ cmds[i - 1].op = "get_rx_stats"
                /\ cmds[i - 1].ok
          /\ (press = "Short" /\ role = "Rx") =>
                /\ handler = "show_and_clear_rx_stats"
                /\ RunsOnly(StatsOps)
                /\ role = RoleAfter(nLong))
    /\ [][(handler = "show_and_clear_rx_stats"
            \/ handler' = "show_and_clear_rx_stats") =>
                (role' = role /\ pkt_id' = pkt_id)]_vars

\* Scenario A: a Short press in role Rx has read and cleared the statistics
C14_Witness ==
    /\ press = "Short"
    /\ role = "Rx"
    /\ pc = "ret"
    /\ Ops = StatsOps
    /\ Done("clear_rx_stats")

(***************************************************************************)
(* C15: the calls of a Long press are, in order, set_chip_mode(Fs) first;  *)
(* then for the new role Rx set_rx(0xFFFFFFFF, true), only after           *)
(* set_chip_mode returned Ok, followed by red LED Off and green LED        *)
(* BlinkSlow; for the new role Tx red LED BlinkSlow and green LED Off and  *)
(* neither set_rx nor set_tx; throughout, the role already reads as the    *)
(* new one (the initial Rx flipped once per dispatched Long press).        *)
(***************************************************************************)
C15_SwitchOrder ==
    press = "Long" =>
        /\ handler = "switch_mode"
        /\ role = RoleAfter(nLong)
        /\ RunsOnly(SwitchOps(role))
        /\ Count("set_tx(0)") = 0
        /\ role = "Tx" => Count("set_rx(0xFFFFFFFF,true)") = 0
        /\ \A i \in At("set_rx(0xFFFFFFFF,true)") :
                i = 2 /\ cmds[1].ok /\ role = "Rx"
        /\ \A i \in 1..Len(cmds) :
                cmds[i].op \in {"led_red_set(Off)", "led_green_set(BlinkSlow)"}
                    => Done("set_rx(0xFFFFFFFF,true)")

\* Scenario C: a Long press in role Tx has brought the board back to Rx
C15_Witness ==
    /\ press = "Long"
    /\ role = "Rx"
    /\ pc = "ret"
    /\ Ops = SwitchOps("Rx")
    /\ radioMode = "Rx"
    /\ pkt_id = 1

\* a Long press in role Rx has left the radio idle in role Tx
C15_WitnessTx ==
    /\ press = "Long"
    /\ role = "Tx"
    /\ pc = "ret"
    /\ Ops = SwitchOps("Tx")
    /\ radioMode = "Fs"

(***************************************************************************)
(* C16 as claimed: every Short press in role Tx that has run to its end,   *)
(* whichever way it ended, wrote the buffer once, started exactly one      *)
(* transmission with set_tx(0), and left the packet id one higher and the  *)
(* role Tx.                                                                *)
(***************************************************************************)
C16_EachPressStartsOneTransmission ==
    (handler = "send_pkt" /\ pc \in {"ret", "panicked"}) =>
        /\ Count("wr_tx_buffer") = 1
        /\ Count("set_tx(0)") = 1
        /\ Done("set_tx(0)")
        /\ role = "Tx"

(***************************************************************************)
(* C16 as amended: the calls of a Short press in role Tx are, in order,    *)
(* the payload fill, wr_tx_buffer(PLD_SIZE), set_tx(0) only after the      *)
(* write returned Ok, the increment of the packet id only after set_tx     *)
(* returned Ok, then the flash of the red LED.  The press starts at most   *)
(* one transmission: exactly one when it returns, none when the write or   *)
(* set_tx fails, which halts the program with the packet id unchanged.     *)
(* The returned press leaves the packet id one higher modulo 256; the      *)
(* increment from 255 may halt the program instead.  Role stays Tx.        *)
(***************************************************************************)
C16_SendOrder ==
    handler = "send_pkt" =>
        /\ press = "Short" /\ role = "Tx"
        /\ IsPrefix(Ops, SendOps)
        /\ \A i \in 0..(PLD_SIZE - 1) : buffer[i + 1] = (buffer[1] + i) % U8
        /\ \A i \in At("wr_tx_buffer") : cmds[i].n = PLD_SIZE
        /\ At("set_tx(0)") # {} => SendOk(1)
        /\ ~Done("set_tx(0)") => pkt_id = buffer[1]
        /\ At("led_red_set(Flash)") # {} =>
                (Done("set_tx(0)") /\ pkt_id = (buffer[1] + 1) % U8)
        /\ pc = "ret" => Ops = SendOps
        /\ pc = "panicked" =>
                \/ Failed /\ panicMsg \in {"FIFO write", "SetTx"}
                \/ /\ panicMsg = OverflowMsg
                   /\ buffer[1] = U8 - 1
                   /\ Ops = <<"wr_tx_buffer", "set_tx(0)">>

\* Scenario B: the press made with packet id 5 has returned with 6
C16_Witness ==
    /\ handler = "send_pkt"
    /\ pc = "ret"
    /\ buffer[1] = 5
    /\ buffer[PLD_SIZE] = 14
    /\ pkt_id = 6
    /\ Ops = SendOps

\* the commands a handler awaits, one at a time
Awaits ==
    {"get_rx_stats", "clear_rx_stats", "wr_tx_buffer", "set_tx", "set_chip_mode",
     "set_rx", "get_status", "get_rx_buffer_status", "rd_rx_buffer",
     "get_lora_packet_status", "clear_rx_buffer", "clear_irqs"}

(***************************************************************************)
(* C17: the loop is strictly sequential.  The race between the button and  *)
(* the interrupt line is set up only when no handler is active; a handler  *)
(* starts only from that race and ends only by returning to it or by       *)
(* halting the program, with events that arrive meanwhile left pending; a  *)
(* handler under way awaits one driver command, every command it issued    *)
(* before has completed, and each step issues the awaited command alone.   *)
(***************************************************************************)
C17_StrictlySequential ==
    /\ [](/\ pc = "select" => handler = "main"
          /\ (handler # "main" /\ pc \notin {"ret", "panicked"}) =>
                /\ pc \in Awaits
                /\ \A i \in 1..Len(cmds) : cmds[i].ok
          /\ \A i \in 1..Len(cmds) : ~cmds[i].ok =>
                (i = Len(cmds) /\ (handler # "main" => pc = "panicked")))
    /\ [][/\ handler' # handler =>
                \/ pc = "select" /\ handler = "main"
                \/ pc = "ret" /\ pc' = "select" /\ handler' = "main"
          /\ (handler # "main" /\ handler' = handler /\ cmds' # cmds) =>
                /\ pc \in Awaits
                /\ IsPrefix(cmds, cmds')
                /\ Cardinality({i \in 1..Len(cmds') :
                        i > Len(cmds) /\ cmds'[i].op \notin
                            {"led_red_set(Flash)", "led_red_set(Off)",
                             "led_red_set(BlinkSlow)", "led_green_set(Off)",
                             "led_green_set(BlinkSlow)"}}) = 1]_vars

\* a press and an interrupt both wait while a handler awaits a driver command
C17_Witness ==
    /\ handler = "show_rx_pkt"
    /\ pc = "rd_rx_buffer"
    /\ btn # "None"
    /\ irqPending

(***************************************************************************)
(* C18: every interrupt that is dispatched, in either role, sets the green *)
(* LED to Flash first and then runs show_rx_pkt, whose first command is    *)
(* get_status: the flash comes before the snapshot is read.  The dispatch  *)
(* and the steps of the handler change neither the role nor the packet id. *)
(***************************************************************************)
C18_FlashBeforeSnapshot ==
    /\ [](handler = "show_rx_pkt" =>
            /\ cmds # <<>>
            /\ cmds[1] = Led("led_green_set(Flash)")
            /\ At("led_green_set(Flash)") = {1}
            /\ At("get_status") \subseteq {2}
            /\ Len(cmds) >= 2 => cmds[2].op = "get_status"
            /\ Len(cmds) = 1 => (pc = "get_status" /\ snap = {}))
    /\ [][(handler = "show_rx_pkt" \/ handler' = "show_rx_pkt") =>
                (role' = role /\ pkt_id' = pkt_id)]_vars

\* an interrupt served in role Tx, after a send
C18_Witness ==
    /\ handler = "show_rx_pkt"
    /\ role = "Tx"
    /\ pkt_id = 1
    /\ Done("get_status")
    /\ "tx_done" \in snap
    /\ cmds[1].op = "led_green_set(Flash)"

(***************************************************************************)
(* C19: set_tx is issued only by a Short press while the role is Tx;       *)
(* set_rx is issued only by initialisation, before the loop, or by a Long  *)
(* press while the role is Rx, right after its set_chip_mode(Fs) returned  *)
(* Ok; a Short press never issues set_rx, a Long press never set_tx, the   *)
(* interrupt handler neither; the loop never waits for an event in role   *)
(* Rx with the radio in Tx mode.                                           *)
(***************************************************************************)
C19_StartCommandsMatchRole ==
    /\ \A i \in At("set_tx(0)") :
        /\ handler = "send_pkt"
        /\ press = "Short"
        /\ role = "Tx"
    /\ \A i \in At("set_rx(0xFFFFFFFF,true)") :
        \/ /\ handler = "main"
           /\ press = "None"
           /\ i = 1
           /\ nLong = 0 /\ pkt_id = 0
        \/ /\ handler = "switch_mode"
           /\ press = "Long"
           /\ role = "Rx"
           /\ i = 2
           /\ cmds[1] = Cmd("set_chip_mode(Fs)", 0, TRUE)
    /\ press = "Short" => At("set_rx(0xFFFFFFFF,true)") = {}
    /\ press = "Long" => At("set_tx(0)") = {}
    /\ handler = "show_rx_pkt" =>
            At("set_tx(0)") \cup At("set_rx(0xFFFFFFFF,true)") = {}
    /\ pc = "set_tx" => role = "Tx"
    /\ pc = "set_rx" => role = "Rx"
    /\ (pc = "select" /\ role = "Rx") => radioMode # "Tx"

\* a transmission started in role Tx after a return to Rx and a second switch
C19_Witness ==
    /\ Done("set_tx(0)")
    /\ role = "Tx"
    /\ pkt_id = 2
    /\ radioMode = "Tx"

(***************************************************************************)
(* C20: every interrupt flag that a successful clear_irqs(None) clears was *)
(* in the status snapshot get_status returned at the start of the same     *)
(* invocation of show_rx_pkt, so that no rx_done or tx_done raised after   *)
(* the snapshot is wiped unseen; and no other handler clears a flag.       *)
(***************************************************************************)
C20_ClearedFlagsWereObserved ==
    [][/\ (pc = "clear_irqs" /\ pc' = "ret") => intr \subseteq snap
       /\ (intr' # intr /\ intr' \subseteq intr) => pc = "clear_irqs"]_vars

====
